---- MODULE Spec2Model ----
(***************************************************************************)
(* Assessment engine of educarCMS (core/assessments_views.py): the Attempt *)
(* lifecycle (assessment_start, assessment_take, grade_attempt), the       *)
(* assessment settings written by assessment_edit, and the transaction     *)
(* behaviour of the configured database (sqlite3, settings.py).            *)
(*                                                                         *)
(* Points, grades and scores are counted in thousandths of a point, so     *)
(* that round(x, 2) is a real operation; times are counted in minutes.     *)
(***************************************************************************)
EXTENDS Integers, Sequences, FiniteSets, TLC

\* ------------------------------------------------------------------ bounds
MaxTime == 2
MaxProgress == 2

\* --------------------------------------------------------------- constants
NULL == -1

Workers == {"w1", "w2"}
Users == {"stu", "stu2", "tch"}

\* Every member of the school: Users, an administrator and the owner of the
\* school (School.owner), who joins it as an administrator (admin.py 13-14).
Members == Users \cup {"adm", "own"}
Owner == "own"
Roles == {"admin", "teacher", "student"}
DefaultRoles ==
  [u \in Members |-> CASE u \in {"adm", "own"} -> "admin"
                        [] u = "tch" -> "teacher"
                        [] OTHER -> "student"]

ObjectiveTypes == {"multiple_choice", "true_false"}
ManualTypes == {"essay", "file"}

\* The question sets an assessment is built with (type, points in 1/1000).
Layouts ==
  { << [type |-> "multiple_choice", points |-> 5000],
       [type |-> "true_false",      points |-> 5000] >>,
    << [type |-> "multiple_choice", points |-> 5000],
       [type |-> "essay",           points |-> 10000] >>,
    << [type |-> "file",            points |-> 2500],
       [type |-> "essay",           points |-> 10000] >> }

\* Choice rows: question q owns the choices 2q-1 (correct) and 2q (wrong).
ChoiceIds == 1..4
ChoiceQuestion(c) == (c + 1) \div 2
ChoiceIsCorrect(c) == c % 2 = 1

\* Raw form values as they arrive in request.POST.
PostValues == {"", "1", "2", "3", "4", "x"}
GradeValues == {"", "3.5", "1.006", "x"}

\* int(value): defined on decimal strings only, ValueError otherwise.
IsInt(v) == v \in {"0", "1", "2", "3", "4"}
ParseInt(v) ==
  CASE v = "0" -> 0 [] v = "1" -> 1 [] v = "2" -> 2 [] v = "3" -> 3
    [] v = "4" -> 4 [] OTHER -> 0

\* float(value) in thousandths: ValueError on non-numeric text.
IsFloat(v) == v \in {"3.5", "1.006"}
ParseFloat(v) ==
  CASE v = "3.5" -> 3500 [] v = "1.006" -> 1006 [] OTHER -> 0

\* round(x, 2) on a value in thousandths (ties to even, as Python rounds).
Round2(m) ==
  LET q == m \div 10
      r == m % 10
  IN IF r < 5 THEN 10 * q
     ELSE IF r > 5 THEN 10 * (q + 1)
     ELSE IF q % 2 = 0 THEN 10 * q ELSE 10 * (q + 1)

VARIABLES now, asmt, questions, enrolled, attempts, answers, req, last,
          catalog, enrollments, progress,
          roles, categories, courses, enrollmentStatus

vars == <<now, asmt, questions, enrolled, attempts, answers, req, last,
          catalog, enrollments, progress,
          roles, categories, courses, enrollmentStatus>>

\* The rows of the school that the assessment and lesson handlers only read.
schoolVars == <<roles, categories, courses, enrollmentStatus>>

\* The tables of the assessment engine, which the lesson handlers leave alone.
assessmentVars == <<now, asmt, questions, enrolled, attempts, answers, req>>

\* SchoolUser.role of a member; the students of the statistics are students.
Role(u) == IF u \in DOMAIN roles THEN roles[u] ELSE "student"

\* Assessment row as assessment_create stores it when the form leaves the
\* numeric and date fields empty.
DefaultAsmt ==
  [attempts_allowed |-> 1, time_limit |-> NULL, open_at |-> NULL, close_at |-> NULL]

\* Attempt row as Attempt.objects.create(...) stores it.
NewAttempt(u, n, t) ==
  [student |-> u, attempt_number |-> n, started_at |-> t,
   finished_at |-> NULL, score |-> NULL, is_submitted |-> FALSE]

\* Answer row as Answer.objects.get_or_create(attempt, question) creates it.
NewAnswer(t, q) ==
  [attempt |-> t, question |-> q, choice |-> 0, is_correct |-> FALSE,
   text_answer |-> "", file_answer |-> FALSE]

\* What a request in flight holds: the handler, the requester, the attempt id
\* of the URL, and the rows its queries returned.
Idle ==
  [op |-> "idle", user |-> "none", att |-> 0, cfg |-> DefaultAsmt,
   cnt |-> 0, enr |-> FALSE, row |-> NewAttempt("none", 0, 0), ans |-> << >>,
   course |-> "none"]

\* Courses, their subjects and lessons. A lesson belongs to any number of
\* subjects (Subject.lessons, many to many), of one course or of several.
Courses == {"A", "B"}
Subjects == {"s1", "s2", "s3"}
SubjectCourse(s) == IF s = "s3" THEN "B" ELSE "A"
LessonIds == 1..3

\* Lesson.status by lesson id and Subject.lessons by subject. Lesson 1 is in
\* two subjects of course A, lesson 3 is a draft and all course B has.
DefaultCatalog ==
  [status |-> <<"published", "published", "draft">>,
   lessons |-> [s1 |-> {1, 2}, s2 |-> {1, 3}, s3 |-> {3}]]

\* Three published lessons, lesson 3 in a subject of each course, and a subject
\* without lessons.
SharedCatalog ==
  [status |-> <<"published", "published", "published">>,
   lessons |-> [s1 |-> {1, 2, 3}, s2 |-> {}, s3 |-> {3}]]

Catalogs == {DefaultCatalog, SharedCatalog}

\* Enrollment rows (course, student): stu follows both courses, stu2 none.
DefaultEnrollments == {<<"A", "stu">>, <<"B", "stu">>}

\* Course rows: the courses of the school (Courses and the draft D) and a
\* course X of another school. max_students in students, NULL when unset.
AllCourses == Courses \cup {"D", "X"}
CategoryIds == 1..3
DefaultCourses ==
  [c \in AllCourses |->
     CASE c = "A" -> [school |-> "home", status |-> "active", category |-> 1, max_students |-> 2]
       [] c = "B" -> [school |-> "home", status |-> "active", category |-> 1, max_students |-> NULL]
       [] c = "D" -> [school |-> "home", status |-> "draft", category |-> NULL, max_students |-> NULL]
       [] OTHER -> [school |-> "other", status |-> "active", category |-> 2, max_students |-> NULL]]

\* Category rows are shared by all schools (Category has no school field).
DefaultCategories == CategoryIds

\* Progress row as Progress.objects.get_or_create(...) creates it.
NewProgress(u, c, l, done, pct) ==
  [student |-> u, course |-> c, lesson |-> l,
   is_completed |-> done, progress_percentage |-> pct]

\* The request served last: handler, requester, attempt id of the URL, the
\* line of the statement that ended it (500: an exception left the handler,
\* 404: get_object_or_404 raised) and the form it posted.
Event(op, u, t, line, form) ==
  [op |-> op, user |-> u, att |-> t, line |-> line, form |-> form]

NoForm == << >>

\* The response of the return statement at a line of assessments_views.py
\* (103: the redirect of teacher_required in decorators.py).
Response(line) ==
  CASE line \in {83, 94, 105, 113, 116} -> "redirect:assessment_detail"
    [] line = 132 -> "redirect:assessment_take"
    [] line \in {174, 218, 302} -> "redirect:assessment_result"
    [] line = 320 -> "render:assessments/take"
    [] line = 1186 -> "redirect:assessment_submissions"
    [] line = 1202 -> "render:assessments/grade_attempt"
    [] line = 628 -> "redirect:assessment_list"
    [] line = 638 -> "render:assessments/assessment_edit"
    [] line = 103 -> "redirect:school_dashboard"
    [] line \in {324, 329} -> "redirect:course_detail"
    [] line = 456 -> "render:lesson_unified"
    [] line = 485 -> "json:200"
    [] line = 1275 -> "render:assessments/assessment_stats"
    [] line = 417 -> "render:assessments/result"
    [] line \in {58, 63} -> "redirect:school_dashboard"
    [] line = 411 -> "render:manage_users"
    [] line = 531 -> "redirect:manage_users"
    [] line = 533 -> "render:edit_user"
    [] line = 1228 -> "redirect:category_list"
    [] line = 1243 -> "render:category_delete"
    [] line = 1020 -> "redirect:course_catalog"
    [] line \in {1027, 1052} -> "redirect:course_detail"
    [] line = 404 -> "not_found"
    [] OTHER -> "server_error"

Init ==
  /\ now = 0
  /\ asmt = DefaultAsmt
  /\ questions \in Layouts
  /\ enrolled = {"stu", "tch"}
  /\ attempts = << >>
  /\ answers = << >>
  /\ req = [w \in Workers |-> Idle]
  /\ last = Event("none", "none", 0, 0, NoForm)
  /\ catalog = DefaultCatalog
  /\ enrollments = DefaultEnrollments
  /\ progress = {}
  /\ roles = DefaultRoles
  /\ categories = DefaultCategories
  /\ courses = DefaultCourses
  /\ enrollmentStatus = [e \in DefaultEnrollments |-> "active"]

\* ------------------------------------------------------- database, sqlite3
\* A handler under @transaction.atomic holds sqlite's shared lock from its
\* first query to its commit. A commit needs the exclusive lock, which sqlite
\* grants only when no other connection holds the shared lock; the writer
\* waits for it, and fails with "database is locked" when the wait cannot end.
InTxn(r) == r.op \in {"start", "take"}

\* Mutant: no transaction is ever seen open by another.
OthersInTxn_Never(w) == FALSE

OthersInTxn(w) == \E o \in Workers \ {w} : InTxn(req[o])

\* Mutant: the database lets every transaction commit.
CommitAllowed_NoLock(w) == TRUE

CommitAllowed(w) == ~OthersInTxn(w)

NoOpenTxn == \A w \in Workers : ~InTxn(req[w])

\* Mutant: the attempts of every student are counted.
CountAttempts_All(u) == Len(attempts)

\* Attempt.objects.filter(assessment=assessment, student=school_user).count()
CountAttempts(u) == Cardinality({i \in 1..Len(attempts) : attempts[i].student = u})

\* ------------------------------------------------------------------- clock
Tick ==
  /\ now < MaxTime
  /\ now' = now + 1
  /\ last' = Event("tick", "none", 0, 0, NoForm)
  /\ UNCHANGED <<asmt, questions, enrolled, catalog, enrollments, progress, attempts, answers, req, roles,
               categories, courses, enrollmentStatus>>

\* ------------------------------------------------- assessment_start (65-137)
\* Mutant: the role check lets every member start an attempt.
IsStudent_Any(u) == TRUE

IsStudent(u) == Role(u) = "student"

\* Mutant: the limit is compared with > instead of >=.
AttemptLimitReached_OffByOne(cnt, allowed) == cnt > allowed

\* "if existing_attempts >= assessment.attempts_allowed" (line 104)
AttemptLimitReached(cnt, allowed) == cnt >= allowed

\* Mutant: the comparison with close_at is turned around.
AfterClose_Flipped(cfg, t) == cfg.close_at # NULL /\ t < cfg.close_at

\* Lines 112 and 115: a bound that is not set leaves that side open.
BeforeOpen(cfg, t) == cfg.open_at # NULL /\ t < cfg.open_at
AfterClose(cfg, t) == cfg.close_at # NULL /\ t > cfg.close_at

\* The return statement assessment_start leaves by, for the rows it read and
\* the time it reads at line 110; 132 is the return that follows the create.
StartExit(r, t) ==
  IF ~IsStudent(r.user) THEN 83
  ELSE IF ~r.enr THEN 94
  ELSE IF AttemptLimitReached(r.cnt, r.cfg.attempts_allowed) THEN 105
  ELSE IF BeforeOpen(r.cfg, t) THEN 113
  ELSE IF AfterClose(r.cfg, t) THEN 116
  ELSE 132

\* What the three queries of lines 73-102 return to requester u.
StartRequest(u) ==
  [Idle EXCEPT !.op = "start", !.user = u, !.cfg = asmt,
               !.cnt = CountAttempts(u), !.enr = (u \in enrolled)]

\* Lines 104-137 for a request that holds r, and the commit of the atomic block.
StartRun(w, r) ==
  LET line == StartExit(r, now)
  IN /\ req' = [req EXCEPT ![w] = Idle]
     /\ \/ /\ line # 132
           /\ last' = Event("start", r.user, 0, line, NoForm)
           /\ UNCHANGED attempts
        \/ /\ line = 132
           /\ CommitAllowed(w)
           /\ attempts' = Append(attempts, NewAttempt(r.user, r.cnt + 1, now))
           /\ last' = Event("start", r.user, 0, 132, NoForm)
        \/ /\ line = 132
           /\ OthersInTxn(w)
           /\ last' = Event("start", r.user, 0, 500, NoForm)
           /\ UNCHANGED attempts
     /\ UNCHANGED <<now, asmt, questions, enrolled, catalog, enrollments, progress, answers, roles,
               categories, courses, enrollmentStatus>>

\* The request enters the atomic block and runs its queries.
StartBegin(w, u) ==
  /\ req[w].op = "idle"
  /\ req' = [req EXCEPT ![w] = StartRequest(u)]
  /\ UNCHANGED <<now, asmt, questions, enrolled, catalog, enrollments, progress, attempts, answers, last, roles,
               categories, courses, enrollmentStatus>>

\* The request runs on from its queries to its response.
StartFinish(w) ==
  /\ req[w].op = "start"
  /\ StartRun(w, req[w])

\* assessment_start from request to response with no other request in between.
AssessmentStart(w, u) ==
  /\ req[w].op = "idle"
  /\ StartRun(w, StartRequest(u))

\* -------------------------------------------------- assessment_take (185-320)
IsObjective(q) == questions[q].type \in ObjectiveTypes

\* Mutant: the choice is looked up by id alone.
ChoiceExists_AnyQuestion(c, q) == c \in ChoiceIds /\ IsObjective(ChoiceQuestion(c))

\* Choice.objects.get(id=value, question=question): the row, or DoesNotExist
\* (0); the choices exist for objective questions only.
ChoiceExists(c, q) == c \in ChoiceIds /\ ChoiceQuestion(c) = q /\ IsObjective(q)

\* What a POST can carry: one value per question field and, for questions of
\* type file, an upload or none.
FieldValues(q) ==
  IF IsObjective(q) THEN PostValues
  ELSE IF questions[q].type = "essay" THEN {"", "x"}
  ELSE {""}

TakeForms ==
  { [post |-> p, files |-> f] :
      p \in {x \in [1..Len(questions) -> PostValues] :
               \A q \in 1..Len(questions) : x[q] \in FieldValues(q)},
      f \in SUBSET {q \in 1..Len(questions) : questions[q].type = "file"} }

\* Ids of the Answer rows of attempt t for question q.
AnswerIds(ans, t, q) ==
  {k \in 1..Len(ans) : ans[k].attempt = t /\ ans[k].question = q}

\* Mutant: an essay with text is stored as correct.
EssayAnswer_Correct(row, value) ==
  [row EXCEPT !.text_answer = value, !.choice = 0, !.is_correct = (value # "")]

\* Lines 277-281: the Answer of an essay question.
EssayAnswer(row, value) ==
  [row EXCEPT !.text_answer = value, !.choice = 0, !.is_correct = FALSE]

\* Lines 286-292: the Answer of a file question.
FileAnswer(row, upload) ==
  [row EXCEPT !.file_answer = (upload \/ @), !.choice = 0, !.is_correct = FALSE]

\* One pass of the loop body (244-292) on the accumulator
\* [ans, score, total, err]: err is an exception leaving the handler.
ProcessQuestion(acc, t, q, value, upload) ==
  LET ids == AnswerIds(acc.ans, t, q)
      created == ids = {}
      ans1 == IF created THEN Append(acc.ans, NewAnswer(t, q)) ELSE acc.ans
      k == IF created THEN Len(ans1) ELSE CHOOSE x \in ids : TRUE
      total1 == acc.total + questions[q].points
  IN IF Cardinality(ids) > 1
       THEN [acc EXCEPT !.err = TRUE]
     ELSE IF IsObjective(q)
       THEN IF value = ""
              THEN [acc EXCEPT !.ans = ans1, !.total = total1]
            ELSE IF ~IsInt(value)
              THEN [acc EXCEPT !.ans = ans1, !.err = TRUE]
            ELSE IF ~ChoiceExists(ParseInt(value), q)
              THEN [acc EXCEPT !.ans = ans1, !.total = total1]
            ELSE [acc EXCEPT
                    !.ans = [ans1 EXCEPT ![k] =
                       [@ EXCEPT !.choice = ParseInt(value),
                                 !.is_correct = ChoiceIsCorrect(ParseInt(value)),
                                 !.text_answer = "", !.file_answer = FALSE]],
                    !.total = total1,
                    !.score = IF ChoiceIsCorrect(ParseInt(value))
                                THEN acc.score + questions[q].points ELSE acc.score]
     ELSE IF questions[q].type = "essay"
       THEN [acc EXCEPT !.ans = [ans1 EXCEPT ![k] = EssayAnswer(@, value)],
                        !.total = total1]
     ELSE IF questions[q].type = "file"
       THEN [acc EXCEPT !.ans = [ans1 EXCEPT ![k] = FileAnswer(@, upload)],
                        !.total = total1]
     ELSE [acc EXCEPT !.ans = ans1, !.total = total1]

\* The loop "for question in questions" (243-292), from question q on.
RECURSIVE ProcessQuestions(_, _, _, _)
ProcessQuestions(acc, t, q, form) ==
  IF q > Len(questions) \/ acc.err THEN acc
  ELSE ProcessQuestions(
         ProcessQuestion(acc, t, q, form.post[q], q \in form.files), t, q + 1, form)

\* Mutant: the comparison with time_limit is turned around.
TimeExpired_Flipped(cfg, started, t) ==
  /\ cfg.time_limit # NULL
  /\ cfg.time_limit # 0
  /\ t - started < cfg.time_limit

\* "if assessment.time_limit:" and "if elapsed > assessment.time_limit"
TimeExpired(cfg, started, t) ==
  /\ cfg.time_limit # NULL
  /\ cfg.time_limit # 0
  /\ t - started > cfg.time_limit

\* Mutant: the attempt is finalized with the score it has.
Finalized_KeepScore(row, t) ==
  IF row.is_submitted THEN row
  ELSE [row EXCEPT !.is_submitted = TRUE, !.finished_at = t]

\* _finalize_attempt_and_redirect (143-179) on the loaded attempt.
Finalized(row, t) ==
  IF row.is_submitted THEN row
  ELSE [row EXCEPT !.is_submitted = TRUE, !.finished_at = t,
                   !.score = IF row.score = NULL THEN 0 ELSE row.score]

\* Lines 297-299.
Submitted(row, acc, t) ==
  [row EXCEPT !.is_submitted = TRUE, !.finished_at = t,
              !.score = IF acc.total > 0 THEN Round2(acc.score) ELSE 0]

\* get_object_or_404(Attempt, id, assessment, student=school_user)
OwnAttempt(u, t) == t \in 1..Len(attempts) /\ attempts[t].student = u

\* What the queries of lines 193-212 return for the attempt of the URL.
TakeRequest(u, t) ==
  [Idle EXCEPT !.op = "take", !.user = u, !.att = t, !.cfg = asmt,
               !.row = attempts[t], !.ans = answers]

\* Mutant: the handler does not look at is_submitted.
TakeExit_NoSubmittedCheck(r, t, method) ==
  IF TimeExpired(r.cfg, r.row.started_at, t) THEN 174
  ELSE IF method = "POST" THEN 302
  ELSE 320

\* The return statement a request that holds r leaves by.
TakeExit(r, t, method) ==
  IF r.row.is_submitted THEN 218
  ELSE IF TimeExpired(r.cfg, r.row.started_at, t) THEN 174
  ELSE IF method = "POST" THEN 302
  ELSE 320

\* What a transaction that read the Answer table as base and left it as res
\* writes into the table cur: its updates by id, its inserts at the end.
Written(cur, base, res) ==
  [k \in 1..Len(cur) |->
     IF k <= Len(base) /\ res[k] # base[k] THEN res[k] ELSE cur[k]]
  \o SubSeq(res, Len(base) + 1, Len(res))

\* Mutant: the writes made before an exception stay in the table.
Persisted_NoRollback(cur, base, acc) == Written(cur, base, acc.ans)

\* @transaction.atomic (187): an exception that leaves the handler rolls the
\* writes of the request back.
Persisted(cur, base, acc) ==
  IF acc.err THEN cur ELSE Written(cur, base, acc.ans)

\* Lines 217-320 for a request that holds r, and the commit of the atomic block.
TakeRun(w, r) ==
  /\ req' = [req EXCEPT ![w] = Idle]
  /\ \E method \in {"GET", "POST"} :
       LET line == TakeExit(r, now, method) IN
       \/ /\ line \in {218, 320}
          /\ last' = Event("take", r.user, r.att, line, NoForm)
          /\ UNCHANGED <<attempts, answers>>
       \/ /\ line = 174
          /\ CommitAllowed(w)
          /\ attempts' = [attempts EXCEPT ![r.att] = Finalized(r.row, now)]
          /\ last' = Event("take", r.user, r.att, 174, NoForm)
          /\ UNCHANGED answers
       \/ /\ line = 302
          /\ \E form \in TakeForms :
               LET acc == ProcessQuestions(
                            [ans |-> r.ans, score |-> 0, total |-> 0, err |-> FALSE],
                            r.att, 1, form)
               IN \/ /\ acc.err
                     /\ answers' = Persisted(answers, r.ans, acc)
                     /\ last' = Event("take", r.user, r.att, 500, form)
                     /\ UNCHANGED attempts
                  \/ /\ ~acc.err
                     /\ CommitAllowed(w)
                     /\ answers' = Persisted(answers, r.ans, acc)
                     /\ attempts' = [attempts EXCEPT ![r.att] = Submitted(r.row, acc, now)]
                     /\ last' = Event("take", r.user, r.att, 302, form)
                  \/ /\ ~acc.err
                     /\ OthersInTxn(w)
                     /\ last' = Event("take", r.user, r.att, 500, form)
                     /\ UNCHANGED <<attempts, answers>>
       \/ /\ line = 174
          /\ OthersInTxn(w)
          /\ last' = Event("take", r.user, r.att, 500, NoForm)
          /\ UNCHANGED <<attempts, answers>>
  /\ UNCHANGED <<now, asmt, questions, enrolled, catalog, enrollments, progress, roles,
               categories, courses, enrollmentStatus>>

\* A request for an attempt that is not the requester's, or does not exist,
\* ends in get_object_or_404 (202-207).
TakeNotFound(w, u, t) ==
  /\ req[w].op = "idle"
  /\ ~OwnAttempt(u, t)
  /\ last' = Event("take", u, t, 404, NoForm)
  /\ UNCHANGED <<now, asmt, questions, enrolled, catalog, enrollments, progress, attempts, answers, req, roles,
               categories, courses, enrollmentStatus>>

\* The request enters the atomic block and loads the attempt.
TakeBegin(w, u, t) ==
  /\ req[w].op = "idle"
  /\ OwnAttempt(u, t)
  /\ req' = [req EXCEPT ![w] = TakeRequest(u, t)]
  /\ UNCHANGED <<now, asmt, questions, enrolled, catalog, enrollments, progress, attempts, answers, last, roles,
               categories, courses, enrollmentStatus>>

\* The request runs on from its queries to its response.
TakeFinish(w) ==
  /\ req[w].op = "take"
  /\ TakeRun(w, req[w])

\* assessment_take from request to response with no other request in between.
AssessmentTake(w, u, t) ==
  /\ req[w].op = "idle"
  /\ OwnAttempt(u, t)
  /\ TakeRun(w, TakeRequest(u, t))

\* ------------------------------------------------ grade_attempt (1136-1202)
\* The handler carries @login_required and @school_context_required only:
\* every member of the school reaches its body.
GradeAllowed(u) == u \in Users

\* What a grading POST can carry: a grade_{answer.id} field for the answer to
\* each essay or file question, indexed here by that question.
GradeForms ==
  {g \in [1..Len(questions) -> GradeValues] :
     \A q \in 1..Len(questions) : IsObjective(q) => g[q] = ""}

\* The loop "for answer in answers" (1163-1177) over the Answer rows of the
\* attempt in id order, from row k on; acc is [score, err].
RECURSIVE GradeAnswers(_, _, _, _)
GradeAnswers(acc, t, k, grades) ==
  IF k > Len(answers) \/ acc.err THEN acc
  ELSE IF answers[k].attempt # t THEN GradeAnswers(acc, t, k + 1, grades)
  ELSE LET q == answers[k].question
           g == grades[q]
       IN IF IsObjective(q)
            THEN GradeAnswers(
                   [acc EXCEPT !.score = IF answers[k].is_correct
                                           THEN @ + questions[q].points ELSE @],
                   t, k + 1, grades)
          ELSE IF g = "" THEN GradeAnswers(acc, t, k + 1, grades)
          ELSE IF ~IsFloat(g) THEN [acc EXCEPT !.err = TRUE]
          ELSE GradeAnswers([acc EXCEPT !.score = @ + ParseFloat(g)], t, k + 1, grades)

\* Mutant: the total is stored without round(total_score, 2).
Graded_NoRound(row, acc) == [row EXCEPT !.score = acc.score, !.is_submitted = TRUE]

\* Lines 1182-1183.
Graded(row, acc) == [row EXCEPT !.score = Round2(acc.score), !.is_submitted = TRUE]

GradeAttempt(u, t) ==
  /\ GradeAllowed(u)
  /\ \/ /\ t \notin 1..Len(attempts)
        /\ last' = Event("grade", u, t, 404, NoForm)
        /\ UNCHANGED attempts
     \/ /\ t \in 1..Len(attempts)
        /\ last' = Event("grade", u, t, 1202, NoForm)
        /\ UNCHANGED attempts
     \/ /\ t \in 1..Len(attempts)
        /\ \E grades \in GradeForms :
             LET acc == GradeAnswers([score |-> 0, err |-> FALSE], t, 1, grades)
             IN \/ /\ acc.err
                   /\ last' = Event("grade", u, t, 500, grades)
                   /\ UNCHANGED attempts
                \/ /\ ~acc.err
                   /\ NoOpenTxn
                   /\ attempts' = [attempts EXCEPT ![t] = Graded(@, acc)]
                   /\ last' = Event("grade", u, t, 1186, grades)
  /\ UNCHANGED <<now, asmt, questions, enrolled, catalog, enrollments, progress, answers, req, roles,
               categories, courses, enrollmentStatus>>

\* ------------------------------------------------ assessment_edit (571-653)
\* What the teacher posts: attempts_allowed and time_limit as text, the two
\* dates already as points in time.
EditForms ==
  { [attempts_allowed |-> a, time_limit |-> f[1], open_at |-> f[2], close_at |-> f[3]] :
      a \in {"1", "2", "x"},
      f \in { <<"", NULL, NULL>>, <<"1", NULL, NULL>>, <<"0", NULL, NULL>>,
              <<"", 1, NULL>>, <<"", NULL, 1>>, <<"1", 1, 1>> } }

\* The forms that leave attempts_allowed and the dates as they were created.
TimeLimitForms ==
  { f \in EditForms : f.attempts_allowed # "2" /\ f.open_at = NULL /\ f.close_at = NULL }

FormIsNumeric(f) ==
  /\ f.attempts_allowed = "" \/ IsInt(f.attempts_allowed)
  /\ f.time_limit = "" \/ IsInt(f.time_limit)

\* Lines 609-618.
EditedAsmt(f) ==
  [attempts_allowed |-> IF f.attempts_allowed = "" THEN 1 ELSE ParseInt(f.attempts_allowed),
   time_limit |-> IF f.time_limit = "" THEN NULL ELSE ParseInt(f.time_limit),
   open_at |-> f.open_at, close_at |-> f.close_at]

\* @teacher_required lets admins and teachers through (decorators.py 94-99).
IsTeacherOrAdmin(u) == Role(u) \in {"admin", "teacher"}

AssessmentEdit(u, forms) ==
  /\ \/ /\ ~IsTeacherOrAdmin(u)
        /\ last' = Event("edit", u, 0, 103, NoForm)
        /\ UNCHANGED asmt
     \/ /\ IsTeacherOrAdmin(u)
        /\ \E f \in forms :
             \/ /\ ~FormIsNumeric(f)
                /\ last' = Event("edit", u, 0, 638, f)
                /\ UNCHANGED asmt
             \/ /\ FormIsNumeric(f)
                /\ NoOpenTxn
                /\ asmt' = EditedAsmt(f)
                /\ last' = Event("edit", u, 0, 628, f)
  /\ UNCHANGED <<now, questions, enrolled, catalog, enrollments, progress, attempts, answers, req, roles,
               categories, courses, enrollmentStatus>>

\* ------------------------------------------------- progress (views.py, helpers.py)
\* round(x, 1) of 100 * num / den, in tenths of a percent.
RoundTenth(num, den) == (2000 * num + den) \div (2 * den)

\* Lesson.objects.filter(subjects__course=course, status="published").distinct()
PublishedOfCourse(c) ==
  {l \in LessonIds :
     /\ catalog.status[l] = "published"
     /\ \E s \in Subjects : SubjectCourse(s) = c /\ l \in catalog.lessons[s]}

\* Mutant: every published lesson of the subject's course is counted.
PublishedOfSubject_WholeCourse(s) == PublishedOfCourse(SubjectCourse(s))

\* subject.lessons.filter(status="published")
PublishedOfSubject(s) ==
  {l \in catalog.lessons[s] : catalog.status[l] = "published"}

\* calculate_course_progress(student, course) on the Progress table prog.
CalculateCourseProgress(prog, u, c) ==
  LET published == PublishedOfCourse(c)
      completed == {r \in prog : /\ r.student = u
                                 /\ r.course = c
                                 /\ r.lesson \in published
                                 /\ r.is_completed}
  IN IF Cardinality(published) = 0 THEN 0
     ELSE RoundTenth(Cardinality(completed), Cardinality(published))

\* calculate_subject_progress(student, subject) on the Progress table prog.
CalculateSubjectProgress(prog, u, s) ==
  LET published == PublishedOfSubject(s)
      completed == {r \in prog : /\ r.student = u
                                 /\ r.lesson \in published
                                 /\ r.is_completed}
  IN IF Cardinality(published) = 0 THEN 0
     ELSE RoundTenth(Cardinality(completed), Cardinality(published))

\* Progress.objects.get_or_create(student, course, lesson, defaults): the row
\* found by the three fields, or a new row; the insert fails on the unique
\* constraint (student, lesson) when the student has a row for the lesson
\* under another course (IntegrityError, err).
ProgressGetOrCreate(prog, u, c, l, done, pct) ==
  LET found == {r \in prog : r.student = u /\ r.course = c /\ r.lesson = l}
      taken == \E r \in prog : r.student = u /\ r.lesson = l
  IN IF found # {}
       THEN [row |-> CHOOSE r \in found : TRUE, created |-> FALSE, err |-> FALSE]
     ELSE IF taken
       THEN [row |-> NewProgress(u, c, l, done, pct), created |-> FALSE, err |-> TRUE]
     ELSE [row |-> NewProgress(u, c, l, done, pct), created |-> TRUE, err |-> FALSE]

\* mark_lesson_as_completed(student, course, lesson) (helpers.py 202-225):
\* the table it leaves, or err.
MarkLessonAsCompleted(prog, u, c, l) ==
  LET got == ProgressGetOrCreate(prog, u, c, l, TRUE, 100)
  IN IF got.err THEN [prog |-> prog, err |-> TRUE]
     ELSE [prog |-> (prog \ {got.row})
                      \cup {[got.row EXCEPT !.is_completed = TRUE,
                                            !.progress_percentage = 100]},
           err |-> FALSE]

\* Lines 472-480 of lesson_progress_update.
UpdateProgress(prog, u, c, l, done) ==
  LET got == ProgressGetOrCreate(prog, u, c, l, done, 0)
  IN IF got.err THEN [prog |-> prog, err |-> TRUE]
     ELSE [prog |-> (prog \ {got.row}) \cup {[got.row EXCEPT !.is_completed = done]},
           err |-> FALSE]

\* The request a lesson handler served: course and lesson of the URL.
LessonRequest(c) == [course |-> c]

\* lesson_view (lessons_views.py 310-456) for a member who is not staff.
LessonView(u, c, l) ==
  /\ \/ /\ catalog.status[l] # "published"
        /\ last' = Event("lesson_view", u, l, 324, LessonRequest(c))
        /\ UNCHANGED progress
     \/ /\ catalog.status[l] = "published"
        /\ Role(u) = "student"
        /\ <<c, u>> \notin enrollments
        /\ last' = Event("lesson_view", u, l, 329, LessonRequest(c))
        /\ UNCHANGED progress
     \/ /\ catalog.status[l] = "published"
        /\ Role(u) # "student" \/ <<c, u>> \in enrollments
        /\ LET res == MarkLessonAsCompleted(progress, u, c, l)
           IN \/ /\ res.err
                 /\ last' = Event("lesson_view", u, l, 500, LessonRequest(c))
                 /\ UNCHANGED progress
              \/ /\ ~res.err
                 /\ Cardinality(res.prog) <= MaxProgress
                 /\ progress' = res.prog
                 /\ last' = Event("lesson_view", u, l, 456, LessonRequest(c))
  /\ UNCHANGED <<catalog, enrollments, roles, categories, courses, enrollmentStatus>>
  /\ UNCHANGED assessmentVars

\* lesson_progress_update (lessons_views.py 460-491) with the JSON body
\* {"is_completed": done}.
LessonProgressUpdate(u, c, l, done) ==
  /\ LET res == UpdateProgress(progress, u, c, l, done)
     IN \/ /\ res.err
           /\ last' = Event("progress_update", u, l, 500,
                            [course |-> c, body |-> done])
           /\ UNCHANGED progress
        \/ /\ ~res.err
           /\ Cardinality(res.prog) <= MaxProgress
           /\ progress' = res.prog
           /\ last' = Event("progress_update", u, l, 485,
                            [course |-> c, body |-> done, success |-> TRUE,
                             is_completed |-> done,
                             course_progress |-> CalculateCourseProgress(res.prog, u, c)])
  /\ UNCHANGED <<catalog, enrollments, roles, categories, courses, enrollmentStatus>>
  /\ UNCHANGED assessmentVars

\* ------------------------------------------------ assessment_result (358-417)
\* assessment.questions.filter(type__in=['multiple_choice', 'true_false'])
ObjectiveQuestions == {q \in 1..Len(questions) : questions[q].type \in ObjectiveTypes}

\* Mutant: the percentage is the attempt's score over the points of the
\* assessment.
PercentCorrect_OfScore(t) ==
  LET RECURSIVE SumPoints(_)
      SumPoints(q) == IF q = 0 THEN 0 ELSE questions[q].points + SumPoints(q - 1)
      total == SumPoints(Len(questions))
      score == IF attempts[t].score = NULL THEN 0 ELSE attempts[t].score
  IN IF total > 0 THEN [num |-> 100 * score, den |-> total] ELSE [num |-> 0, den |-> 1]

\* percent_correct (387-396). The code divides floats and does not round:
\* the value is kept as the fraction num / den.
PercentCorrect(t) ==
  LET total_obj == Cardinality(ObjectiveQuestions)
      correct_obj == Cardinality({k \in 1..Len(answers) :
                        /\ answers[k].attempt = t
                        /\ answers[k].question \in ObjectiveQuestions
                        /\ answers[k].is_correct})
  IN IF total_obj > 0 THEN [num |-> 100 * correct_obj, den |-> total_obj]
     ELSE [num |-> 0, den |-> 1]

\* assessment_result: the attempt is looked up among the requester's own.
AssessmentResult(u, t) ==
  /\ \/ /\ ~(t \in 1..Len(attempts) /\ attempts[t].student = u)
        /\ last' = Event("result", u, t, 404, NoForm)
     \/ /\ t \in 1..Len(attempts)
        /\ attempts[t].student = u
        /\ last' = Event("result", u, t, 417, [percent_correct |-> PercentCorrect(t)])
  /\ UNCHANGED <<catalog, enrollments, progress, roles,
               categories, courses, enrollmentStatus>>
  /\ UNCHANGED assessmentVars

\* ------------------------------------------------ assessment_stats (1209-1275)
\* round(num / den) to the nearest integer, ties to even.
RoundDiv(num, den) ==
  LET q == num \div den
      r == num % den
  IN IF 2 * r < den THEN q
     ELSE IF 2 * r > den THEN q + 1
     ELSE IF q % 2 = 0 THEN q ELSE q + 1

\* assessment.attempts.filter(is_submitted=True)
SubmittedAttempts == {i \in 1..Len(attempts) : attempts[i].is_submitted}

\* attempts.aggregate(avg=Avg("score"))["avg"] or 0, then round(avg_score, 2):
\* Avg skips the rows whose score is null and is None when none is left.
AvgScore ==
  LET scored == {i \in SubmittedAttempts : attempts[i].score # NULL}
      RECURSIVE Sum(_)
      Sum(S) == IF S = {} THEN 0
                ELSE LET i == CHOOSE x \in S : TRUE IN attempts[i].score + Sum(S \ {i})
  IN IF scored = {} THEN 0
     ELSE 10 * RoundDiv(Sum(scored), 10 * Cardinality(scored))

\* Mutant: only the answers that hold a choice are counted.
AnswersTo_WithChoice(q) ==
  {k \in 1..Len(answers) : answers[k].question = q /\ answers[k].choice # 0}

\* Answer.objects.filter(question=q)
AnswersTo(q) == {k \in 1..Len(answers) : answers[k].question = q}

\* round(correct_ans / total_ans * 100, 2) in hundredths of a percent, 0 when
\* the question has no answer.
CorrectRate(q) ==
  LET total_ans == Cardinality(AnswersTo(q))
      correct_ans == Cardinality({k \in AnswersTo(q) : answers[k].is_correct})
  IN IF total_ans = 0 THEN 0 ELSE RoundDiv(10000 * correct_ans, total_ans)

\* sorted(difficult_questions, key=correct_rate): the questions from the
\* lowest rate to the highest, equal rates in question order.
RECURSIVE SortedByRate(_)
SortedByRate(qs) ==
  IF qs = {} THEN << >>
  ELSE LET q == CHOOSE x \in qs :
                  \A y \in qs : \/ CorrectRate(x) < CorrectRate(y)
                                \/ CorrectRate(x) = CorrectRate(y) /\ x <= y
       IN <<q>> \o SortedByRate(qs \ {q})

\* The context the template is rendered with.
StatsContext ==
  [total |-> Cardinality(SubmittedAttempts),
   avg_score |-> AvgScore,
   correct_rate |-> [q \in 1..Len(questions) |-> CorrectRate(q)],
   difficult_questions |-> SortedByRate(1..Len(questions))]

\* assessment_stats for any member of the school.
AssessmentStats(u) ==
  /\ last' = Event("stats", u, 0, 1275, StatsContext)
  /\ UNCHANGED <<catalog, enrollments, progress, roles,
               categories, courses, enrollmentStatus>>
  /\ UNCHANGED assessmentVars

\* The tables after each of four students has started an attempt and left it
\* in progress or submitted one of these forms.
StatsStudents == <<"stu", "stu2", "stu3", "stu4">>
StatsForms ==
  { [post |-> <<"1", "3">>, files |-> {}], [post |-> <<"1", "4">>, files |-> {}],
    [post |-> <<"2", "4">>, files |-> {}], [post |-> <<"", "">>, files |-> {}] }
StatsOutcomes == StatsForms \cup {NoForm}

RECURSIVE StatsTables(_, _, _)
StatsTables(tab, i, outcome) ==
  IF i > Len(StatsStudents) THEN tab
  ELSE LET row == NewAttempt(StatsStudents[i], 1, 0)
           acc == ProcessQuestions(
                    [ans |-> tab.ans, score |-> 0, total |-> 0, err |-> FALSE],
                    i, 1, outcome[i])
       IN IF outcome[i] = NoForm
            THEN StatsTables([tab EXCEPT !.att = Append(@, row)], i + 1, outcome)
          ELSE StatsTables([att |-> Append(tab.att, Submitted(row, acc, 0)),
                            ans |-> acc.ans], i + 1, outcome)

\* ------------------------------------------------ administration
\* admin_required (decorators.py 45-68): the line of the redirect that stops
\* the request, 0 when the wrapped view runs. The first test lets the owner
\* through, the second stops whoever is no admin.
AdminRequired(u) ==
  IF Role(u) # "admin" /\ u # Owner THEN 58
  ELSE IF Role(u) # "admin" THEN 63
  ELSE 0

\* manage_users (views.py 340-411).
ManageUsers(u) ==
  /\ last' = Event("manage_users", u, 0,
                   IF AdminRequired(u) # 0 THEN AdminRequired(u) ELSE 411, NoForm)
  /\ UNCHANGED <<catalog, enrollments, progress>>
  /\ UNCHANGED schoolVars
  /\ UNCHANGED assessmentVars

\* edit_user (views.py 496-537): a POST stores the role it carries for the
\* SchoolUser it names.
EditUser(u, target, role) ==
  /\ \/ /\ AdminRequired(u) # 0
        /\ last' = Event("edit_user", u, 0, AdminRequired(u), NoForm)
        /\ UNCHANGED roles
     \/ /\ AdminRequired(u) = 0
        /\ last' = Event("edit_user", u, 0, 533, NoForm)
        /\ UNCHANGED roles
     \/ /\ AdminRequired(u) = 0
        /\ NoOpenTxn
        /\ roles' = [roles EXCEPT ![target] = role]
        /\ last' = Event("edit_user", u, 0, 531, [target |-> target, role |-> role])
  /\ UNCHANGED <<catalog, enrollments, progress, categories, courses, enrollmentStatus>>
  /\ UNCHANGED assessmentVars

\* Mutant: no course counts as linked.
LinkedCourses_None(cat) == {}

\* category.courses.filter(school=school) for the current school (1212).
LinkedCourses(cat) ==
  {c \in AllCourses : courses[c].category = cat /\ courses[c].school = "home"}

\* category.delete(): the row goes and Course.category, declared with
\* on_delete=SET_NULL (models.py 155), is cleared in every course that held it.
CategoryDeleted(cat) ==
  [c \in AllCourses |->
     IF courses[c].category = cat THEN [courses[c] EXCEPT !.category = NULL]
     ELSE courses[c]]

\* category_delete (courses_views.py 1196-1243); post tells a POST from a GET.
CategoryDelete(u, cat, post) ==
  /\ \/ /\ AdminRequired(u) # 0
        /\ last' = Event("category_delete", u, cat, AdminRequired(u), NoForm)
        /\ UNCHANGED <<categories, courses>>
     \/ /\ AdminRequired(u) = 0
        /\ cat \notin categories
        /\ last' = Event("category_delete", u, cat, 404, NoForm)
        /\ UNCHANGED <<categories, courses>>
     \/ /\ AdminRequired(u) = 0
        /\ cat \in categories
        /\ LET courses_count == Cardinality(LinkedCourses(cat))
           IN IF ~post
                THEN /\ last' = Event("category_delete", u, cat, 1243,
                                      [method |-> "GET", courses_count |-> courses_count])
                     /\ UNCHANGED <<categories, courses>>
              ELSE IF courses_count > 0
                THEN /\ last' = Event("category_delete", u, cat, 1228,
                                      [method |-> "POST", message |-> "warning",
                                       courses_count |-> courses_count])
                     /\ UNCHANGED <<categories, courses>>
              ELSE /\ categories' = categories \ {cat}
                   /\ courses' = CategoryDeleted(cat)
                   /\ last' = Event("category_delete", u, cat, 1228,
                                    [method |-> "POST", message |-> "success",
                                     courses_count |-> courses_count])
  /\ UNCHANGED <<catalog, enrollments, progress, roles, enrollmentStatus>>
  /\ UNCHANGED assessmentVars

\* ------------------------------------------------ enroll_in_course (1004-1052)
\* course.enrollments.count()
CountEnrollments(c) == Cardinality({e \in enrollments : e[1] = c})

\* The handler runs outside any transaction: what its queries of lines
\* 1011-1025 return is held by the request until it reaches get_or_create.
EnrollRequest(u, c) ==
  [Idle EXCEPT !.op = "enroll", !.user = u, !.course = c, !.cnt = CountEnrollments(c)]

\* The line of the return statement that ends the request, 1052 when it goes
\* through get_or_create; "course.max_students and ..." skips the test when
\* max_students is unset or 0.
EnrollExit(r) ==
  IF courses[r.course].school # "home" THEN 404
  ELSE IF courses[r.course].status # "active" THEN 1020
  ELSE IF /\ courses[r.course].max_students # NULL
          /\ courses[r.course].max_students # 0
          /\ r.cnt >= courses[r.course].max_students THEN 1027
  ELSE 1052

\* Enrollment.objects.get_or_create(course, student,
\* defaults={"status": "in_progress"}) (1032-1036).
EnrollmentCreated(u, c) ==
  [e \in enrollments \cup {<<c, u>>} |->
     IF e \in enrollments THEN enrollmentStatus[e] ELSE "in_progress"]

EnrollRun(w, r) ==
  LET line == EnrollExit(r)
  IN /\ req' = [req EXCEPT ![w] = Idle]
     /\ last' = Event("enroll", r.user, 0, line, [course |-> r.course, count |-> r.cnt])
     /\ IF line = 1052
          THEN /\ enrollments' = enrollments \cup {<<r.course, r.user>>}
               /\ enrollmentStatus' = EnrollmentCreated(r.user, r.course)
        ELSE UNCHANGED <<enrollments, enrollmentStatus>>
     /\ UNCHANGED <<now, asmt, questions, enrolled, attempts, answers,
                    catalog, progress, roles, categories, courses>>

\* The request has read the course and counted its enrollments.
EnrollBegin(w, u, c) ==
  /\ req[w].op = "idle"
  /\ req' = [req EXCEPT ![w] = EnrollRequest(u, c)]
  /\ UNCHANGED <<now, asmt, questions, enrolled, attempts, answers, last,
                 catalog, enrollments, progress, roles, categories, courses, enrollmentStatus>>

\* The request runs on to its response.
EnrollFinish(w) ==
  /\ req[w].op = "enroll"
  /\ EnrollRun(w, req[w])

\* ------------------------------------------------------------ specifications
\* The attempt lifecycle: one assessment that admits one attempt per student,
\* taken, finalized and graded under every time limit.
Next ==
  \/ Tick
  \/ \E u \in Users : AssessmentStart("w1", u)
  \/ \E u \in Users, t \in 1..(Len(attempts) + 1) : TakeNotFound("w1", u, t)
  \/ \E u \in Users, t \in 1..(Len(attempts) + 1) : AssessmentTake("w1", u, t)
  \/ \E u \in Users, t \in 1..(Len(attempts) + 1) : GradeAttempt(u, t)
  \/ \E u \in Users : AssessmentEdit(u, TimeLimitForms)

Spec == Init /\ [][Next]_vars

\* Starting attempts: the assessment under every setting of attempts_allowed
\* and of the opening window.
NextStart ==
  \/ Tick
  \/ \E w \in Workers, u \in Users : StartBegin(w, u)
  \/ \E w \in Workers : StartFinish(w)
  \/ \E u \in Users : AssessmentEdit(u, EditForms)

SpecStart == Init /\ [][NextStart]_vars

\* Submissions of one attempt by two requests at a time.
NextTake ==
  \/ Tick
  \/ \E u \in Users : AssessmentStart("w1", u)
  \/ \E w \in Workers, u \in Users, t \in 1..(Len(attempts) + 1) : TakeNotFound(w, u, t)
  \/ \E w \in Workers, u \in Users, t \in 1..Len(attempts) : TakeBegin(w, u, t)
  \/ \E w \in Workers : TakeFinish(w)

SpecTake == Init /\ [][NextTake]_vars

\* Lessons viewed by every member and progress posted by the students (the
\* handler treats a teacher's post as it treats a student's).
InitLessons ==
  /\ now = 0
  /\ asmt = DefaultAsmt
  /\ questions = << >>
  /\ enrolled = {"stu", "tch"}
  /\ attempts = << >>
  /\ answers = << >>
  /\ req = [w \in Workers |-> Idle]
  /\ last = Event("none", "none", 0, 0, NoForm)
  /\ catalog \in Catalogs
  /\ enrollments = DefaultEnrollments
  /\ progress = {}
  /\ roles = DefaultRoles
  /\ categories = DefaultCategories
  /\ courses = DefaultCourses
  /\ enrollmentStatus = [e \in DefaultEnrollments |-> "active"]

NextLessons ==
  \/ \E u \in Users, c \in Courses, l \in LessonIds : LessonView(u, c, l)
  \/ \E u \in {"stu", "stu2"}, c \in Courses, l \in LessonIds, done \in BOOLEAN :
       LessonProgressUpdate(u, c, l, done)

SpecLessons == InitLessons /\ [][NextLessons]_vars

\* Results looked at before and after grading.
NextResult ==
  \/ \E u \in Users : AssessmentStart("w1", u)
  \/ \E u \in Users, t \in 1..(Len(attempts) + 1) : AssessmentTake("w1", u, t)
  \/ \E u \in Users, t \in 1..(Len(attempts) + 1) : GradeAttempt(u, t)
  \/ \E u \in Users, t \in 1..(Len(attempts) + 1) : AssessmentResult(u, t)

SpecResult == Init /\ [][NextResult]_vars

\* Administration: members of every role manage users and delete categories.
NextAdmin ==
  \/ \E u \in Members : ManageUsers(u)
  \/ \E u \in Members, target \in {Owner, "tch"}, role \in Roles : EditUser(u, target, role)
  \/ \E u \in Members, cat \in CategoryIds, post \in BOOLEAN : CategoryDelete(u, cat, post)

SpecAdmin == Init /\ [][NextAdmin]_vars

\* Attempts started one request at a time by two enrolled students, under
\* every setting of the assessment.
InitNumbering ==
  /\ now = 0
  /\ asmt = DefaultAsmt
  /\ questions \in Layouts
  /\ enrolled = {"stu", "stu2", "tch"}
  /\ attempts = << >>
  /\ answers = << >>
  /\ req = [w \in Workers |-> Idle]
  /\ last = Event("none", "none", 0, 0, NoForm)
  /\ catalog = DefaultCatalog
  /\ enrollments = DefaultEnrollments
  /\ progress = {}
  /\ roles = DefaultRoles
  /\ categories = DefaultCategories
  /\ courses = DefaultCourses
  /\ enrollmentStatus = [e \in DefaultEnrollments |-> "active"]

NextNumbering ==
  \/ Tick
  \/ \E u \in Users : AssessmentStart("w1", u)
  \/ \E u \in Users : AssessmentEdit(u, EditForms)

SpecNumbering == InitNumbering /\ [][NextNumbering]_vars

\* Enrollment requests of every member, two at a time.
NextEnroll ==
  \/ \E w \in Workers, u \in Users, c \in AllCourses : EnrollBegin(w, u, c)
  \/ \E w \in Workers : EnrollFinish(w)

SpecEnroll == Init /\ [][NextEnroll]_vars

\* Statistics of an assessment of two objective questions over the attempts
\* of four students.
InitStats ==
  /\ now = 0
  /\ asmt = DefaultAsmt
  /\ questions = << [type |-> "multiple_choice", points |-> 5000],
                    [type |-> "true_false", points |-> 5000] >>
  /\ enrolled = {"stu", "stu2", "stu3", "stu4"}
  /\ \E outcome \in [1..Len(StatsStudents) -> StatsOutcomes] :
       LET tab == StatsTables([att |-> << >>, ans |-> << >>], 1, outcome)
       IN attempts = tab.att /\ answers = tab.ans
  /\ req = [w \in Workers |-> Idle]
  /\ last = Event("none", "none", 0, 0, NoForm)
  /\ catalog = DefaultCatalog
  /\ enrollments = DefaultEnrollments
  /\ progress = {}
  /\ roles = DefaultRoles
  /\ categories = DefaultCategories
  /\ courses = DefaultCourses
  /\ enrollmentStatus = [e \in DefaultEnrollments |-> "active"]

NextStats == \E u \in Users : AssessmentStats(u)

SpecStats == InitStats /\ [][NextStats]_vars

\* ------------------------------------------------------------------ claims
CountIn(atts, u) == Cardinality({i \in 1..Len(atts) : atts[i].student = u})

\* The sum of f[x] over the elements x of S.
RECURSIVE SumOver(_, _)
SumOver(S, f) ==
  IF S = {} THEN 0
  ELSE LET x == CHOOSE y \in S : TRUE IN f[x] + SumOver(S \ {x}, f)

QuestionIds == 1..Len(questions)
Points == [q \in QuestionIds |-> questions[q].points]
Answered(t, q) == \E k \in 1..Len(answers) : answers[k].attempt = t /\ answers[k].question = q

\* The step in which worker w answers the request of kind op it holds.
Responds(w, op) == req[w].op = op /\ req'[w].op = "idle"

\* C1 (as stated): in every reachable state no student has more Attempt rows
\* on the assessment than its attempts_allowed.
C1_AttemptsWithinLimit ==
  \A u \in Users : CountIn(attempts, u) <= asmt.attempts_allowed

\* The limit was lowered by assessment_edit below the attempts a student has.
C1_Witness ==
  /\ last.op = "edit"
  /\ last.line = 628
  /\ asmt.attempts_allowed = 1
  /\ \E u \in Users : CountIn(attempts, u) = 2

\* C1 (the part that holds): no step, interleaved assessment_start requests
\* included, adds an Attempt that takes a student's count above
\* attempts_allowed.
C1_StartKeepsLimit ==
  [][\A u \in Users :
       CountIn(attempts', u) > CountIn(attempts, u)
         => CountIn(attempts', u) <= asmt.attempts_allowed]_vars

\* Two start requests of one student were open together; one of them failed
\* and the other is about to create the attempt.
C1_RaceWitness ==
  /\ last.op = "start"
  /\ last.line = 500
  /\ \E w \in Workers :
       /\ req[w].op = "start"
       /\ req[w].user = last.user
       /\ req[w].cnt + 1 = req[w].cfg.attempts_allowed

\* C6: assessment_start creates an Attempt only for an enrolled student; when
\* the requester is no student or is not enrolled, no Attempt, Answer or
\* Enrollment row changes and the response redirects to the detail page.
C6_StartGuards ==
  [][\A w \in Workers : Responds(w, "start") =>
       LET u == req[w].user IN
       /\ attempts' # attempts => (Role(u) = "student" /\ u \in enrolled)
       /\ (Role(u) # "student" \/ u \notin enrolled) =>
            /\ attempts' = attempts
            /\ answers' = answers
            /\ enrolled' = enrolled
            /\ Response(last'.line) = "redirect:assessment_detail"]_vars

\* A teacher who is enrolled and a student who is not were both sent back.
C6_Witness ==
  /\ last.op = "start"
  /\ Response(last.line) = "redirect:assessment_detail"
  /\ \/ Role(last.user) # "student" /\ last.user \in enrolled
     \/ Role(last.user) = "student" /\ last.user \notin enrolled

\* C7: a start request of a student who already has attempts_allowed Attempts
\* creates no Attempt and redirects to the detail page.
C7_LimitReached ==
  [][\A w \in Workers :
       (Responds(w, "start") /\ CountIn(attempts, req[w].user) >= asmt.attempts_allowed) =>
       /\ attempts' = attempts
       /\ Response(last'.line) = "redirect:assessment_detail"]_vars

\* The third request of a student with 2 attempts of 2 was sent back.
C7_Witness ==
  /\ last.op = "start"
  /\ last.line = 105
  /\ asmt.attempts_allowed = 2
  /\ CountIn(attempts, last.user) = 2

\* C8: assessment_start creates an Attempt only while now is within
\* [open_at, close_at], an unset bound leaving its side open; once close_at
\* has passed no Attempt is created, whatever the student's attempt count.
C8_Window ==
  [][\A w \in Workers : Responds(w, "start") =>
       /\ attempts' # attempts =>
            /\ asmt.open_at = NULL \/ asmt.open_at <= now
            /\ asmt.close_at = NULL \/ now <= asmt.close_at
       /\ (asmt.close_at # NULL /\ now > asmt.close_at) =>
            /\ attempts' = attempts
            /\ Response(last'.line) = "redirect:assessment_detail"]_vars

\* A student with no attempt at all was sent back after close_at.
C8_Witness ==
  /\ last.op = "start"
  /\ last.line = 116
  /\ attempts = << >>
  /\ now > asmt.close_at

\* C2: an assessment_take request of the owner for a submitted Attempt changes
\* no Attempt and no Answer row and redirects to the result page.
C2_SubmittedIsFrozen ==
  [][\A t \in 1..Len(attempts) :
       (/\ last'.op = "take"
        /\ last'.att = t
        /\ last'.user = attempts[t].student
        /\ attempts[t].is_submitted) =>
         /\ attempts' = attempts
         /\ answers' = answers
         /\ Response(last'.line) = "redirect:assessment_result"]_vars

\* A submitted attempt was requested again and the request left at line 218.
C2_Witness ==
  /\ last.op = "take"
  /\ last.line = 218
  /\ attempts[last.att].is_submitted
  /\ attempts[last.att].finished_at # NULL
  /\ attempts[last.att].finished_at < now

\* C3: a grade_attempt request sent by a member whose role is student changes
\* no Attempt.
C3_StudentCannotGrade ==
  [][(last'.op = "grade" /\ Role(last'.user) = "student") => attempts' = attempts]_vars

\* A student posted the grading form for their own attempt with 3.5 for the
\* essay: the score went from 5.00 to 8.50.
C3_Witness ==
  /\ last.op = "grade"
  /\ last.line = 1186
  /\ Role(last.user) = "student"
  /\ attempts[last.att].student = last.user
  /\ \E q \in QuestionIds : questions[q].type = "essay" /\ last.form[q] = "3.5"
  /\ attempts[last.att].score = 8500

\* The questions a take form earns points for: objective questions whose field
\* holds the id of a correct Choice of that very question.
C4_Earned(form) ==
  {q \in QuestionIds :
     /\ questions[q].type \in ObjectiveTypes
     /\ form.post[q] \in {"1", "2", "3", "4"}
     /\ ChoiceQuestion(ParseInt(form.post[q])) = q
     /\ ChoiceIsCorrect(ParseInt(form.post[q]))}

\* C4: a POST that submits an attempt stores the sum of the points of the
\* questions it answered with a correct Choice of their own, rounded to two
\* decimals and not divided by the points possible.
C4_ManualScore ==
  [][(last'.op = "take" /\ last'.line = 302) =>
       attempts'[last'.att].score = Round2(SumOver(C4_Earned(last'.form), Points))]_vars

\* Two questions of 5 points, the first answered right and the second wrong,
\* were submitted and the score is 5.00.
C4_Witness ==
  /\ last.op = "take"
  /\ last.line = 302
  /\ \A q \in QuestionIds : questions[q].type \in ObjectiveTypes /\ questions[q].points = 5000
  /\ last.form.post = <<"1", "4">>
  /\ attempts[last.att].score = 5000

\* The total a grading form gives attempt t: the points of its objective
\* answers marked correct plus the grades posted for its essay and file answers.
C5_Expected(t, g) ==
  SumOver({q \in QuestionIds :
             /\ questions[q].type \in ObjectiveTypes
             /\ \E k \in 1..Len(answers) :
                  answers[k].attempt = t /\ answers[k].question = q /\ answers[k].is_correct},
          Points)
  + SumOver({q \in QuestionIds :
               questions[q].type \in ManualTypes /\ Answered(t, q) /\ g[q] # ""},
            [q \in QuestionIds |-> ParseFloat(g[q])])

\* C5: a grade_attempt POST stores round(objective points marked correct +
\* posted grades, 2) and is_submitted = True; a grade of 3.5 for an essay or
\* file answer makes the score 3.5 higher than the same form without it.
C5_Regrade ==
  [][(last'.op = "grade" /\ last'.line = 1186) =>
       LET t == last'.att
           g == last'.form
       IN /\ attempts'[t].score = Round2(C5_Expected(t, g))
          /\ attempts'[t].is_submitted
          /\ \A q \in QuestionIds :
               (questions[q].type \in ManualTypes /\ Answered(t, q) /\ g[q] = "3.5") =>
                 attempts'[t].score = Round2(C5_Expected(t, [g EXCEPT ![q] = ""])) + 3500]_vars

\* A submitted attempt with a correct objective answer and an essay answer was
\* graded 3.5 for the essay: 5.00 became 8.50.
C5_Witness ==
  /\ last.op = "grade"
  /\ last.line = 1186
  /\ \E q \in QuestionIds :
       questions[q].type = "essay" /\ Answered(last.att, q) /\ last.form[q] = "3.5"
  /\ attempts[last.att].score = 8500
  /\ attempts[last.att].finished_at # NULL

C10_GradeOnlySubmitted ==
  [][\A t \in 1..Len(attempts) :
       (last'.op = "grade" /\ last'.att = t /\ ~attempts[t].is_submitted) =>
         attempts'[t] = attempts[t]]_vars

\* A teacher graded an attempt that was never submitted: it is now submitted,
\* with score 0 and no finished_at.
C10_Witness ==
  /\ last.op = "grade"
  /\ last.line = 1186
  /\ Role(last.user) = "teacher"
  /\ attempts[last.att].is_submitted
  /\ attempts[last.att].finished_at = NULL
  /\ attempts[last.att].score = 0

WellFormed(form) ==
  /\ form # NoForm
  /\ \A q \in QuestionIds :
       questions[q].type \in ObjectiveTypes => form.post[q] \in {"", "1", "2", "3", "4"}

\* C12: a submission that an exception ends leaves no Answer write and no
\* change of the Attempt behind; one that succeeds leaves an Answer for every
\* question and the Attempt submitted, finished and scored.
C12_Atomic ==
  [][last'.op = "take" =>
       /\ last'.line = 500 => (answers' = answers /\ attempts' = attempts)
       /\ last'.line = 302 =>
            /\ \A q \in QuestionIds : AnswerIds(answers', last'.att, q) # {}
            /\ attempts'[last'.att].is_submitted
            /\ attempts'[last'.att].finished_at = now
            /\ attempts'[last'.att].score # NULL]_vars

\* The second question's field was not a number: the request failed after the
\* first question's Answer had been written, and no Answer is in the table.
C12_Witness ==
  /\ last.op = "take"
  /\ last.line = 500
  /\ last.form # NoForm
  /\ last.form.post = <<"1", "x">>
  /\ answers = << >>
  /\ ~attempts[last.att].is_submitted

C14_ManualEarnsNothing ==
  [][(last'.op = "take" /\ last'.line = 302) =>
       LET t == last'.att IN
       /\ \A k \in 1..Len(answers') :
            (answers'[k].attempt = t /\ questions[answers'[k].question].type \in ManualTypes)
              => (~answers'[k].is_correct /\ answers'[k].choice = 0)
       /\ attempts'[t].score =
            SumOver({q \in QuestionIds :
                       \E k \in 1..Len(answers') :
                         /\ answers'[k].attempt = t
                         /\ answers'[k].question = q
                         /\ answers'[k].is_correct}, Points)]_vars

\* A file was uploaded and an essay written, and the attempt was submitted
\* with score 0.
C14_Witness ==
  /\ last.op = "take"
  /\ last.line = 302
  /\ \A q \in QuestionIds : questions[q].type \in ManualTypes
  /\ \E k \in 1..Len(answers) : answers[k].attempt = last.att /\ answers[k].text_answer = "x"
  /\ \E k \in 1..Len(answers) : answers[k].attempt = last.att /\ answers[k].file_answer
  /\ attempts[last.att].score = 0

\* The lessons among ls for which student u has a Progress row marked completed.
CompletedLessons(u, ls) ==
  {l \in ls : \E r \in progress : r.student = u /\ r.lesson = l /\ r.is_completed}

\* C15: calculate_course_progress(student, course) is 0 when the course has no
\* published lesson, and otherwise 100 * (published lessons of the course the
\* student has completed) / (published lessons of the course), each lesson
\* counted once, rounded to 1 decimal.
C15_CourseProgress ==
  \A u \in Users, c \in Courses :
    LET P == {l \in LessonIds :
                /\ catalog.status[l] = "published"
                /\ \E s \in Subjects : SubjectCourse(s) = c /\ l \in catalog.lessons[s]}
    IN CalculateCourseProgress(progress, u, c)
         = IF P = {} THEN 0
           ELSE RoundTenth(Cardinality(CompletedLessons(u, P)), Cardinality(P))

\* The student completed lesson 3, which courses A and B share, under course
\* A: it is the only published lesson of course B, whose progress is 0.
C15_Witness ==
  /\ catalog = SharedCatalog
  /\ NewProgress("stu", "A", 3, TRUE, 100) \in progress
  /\ PublishedOfCourse("B") = {3}
  /\ CalculateCourseProgress(progress, "stu", "B") = 0

\* C16: calculate_subject_progress(student, subject) is 0 when the subject has
\* no published lesson, and otherwise 100 * (published lessons of the subject
\* the student has completed) / (published lessons of the subject), rounded
\* to 1 decimal, and lies within 0..100.
C16_SubjectProgress ==
  \A u \in Users, s \in Subjects :
    LET P == {l \in catalog.lessons[s] : catalog.status[l] = "published"}
        v == CalculateSubjectProgress(progress, u, s)
    IN /\ v = IF P = {} THEN 0
              ELSE RoundTenth(Cardinality(CompletedLessons(u, P)), Cardinality(P))
       /\ v \in 0..1000

\* Two of the three published lessons of subject s1 are completed (66.7) and
\* one of the two of s1 in the other catalog would be 50.0; s2 has no lesson.
C16_Witness ==
  /\ catalog = SharedCatalog
  /\ CalculateSubjectProgress(progress, "stu", "s1") = 667
  /\ CalculateSubjectProgress(progress, "stu", "s2") = 0
  /\ CalculateSubjectProgress(progress, "stu", "s3") \in {0, 1000}

\* C17: lesson_view reaching mark_lesson_as_completed for a student and lesson
\* that already have a Progress row succeeds and leaves exactly one row for
\* them, completed and at 100 percent.
C17_MarkTwice ==
  [][(/\ last'.op = "lesson_view"
      /\ last'.line \in {456, 500}
      /\ \E r \in progress : r.student = last'.user /\ r.lesson = last'.att) =>
       /\ last'.line = 456
       /\ \A r \in progress' :
            (r.student = last'.user /\ r.lesson = last'.att) =>
              r = NewProgress(last'.user, last'.form.course, last'.att, TRUE, 100)]_vars

\* The student viewed a lesson under one course and then under the other: the
\* second request ended in IntegrityError.
C17_Witness ==
  /\ last.op = "lesson_view"
  /\ last.line = 500
  /\ \E r \in progress :
       /\ r.student = last.user
       /\ r.lesson = last.att
       /\ r.course # last.form.course
       /\ r.is_completed
       /\ r.progress_percentage = 100

\* C18: every Progress row of a student has an Enrollment of that student in
\* the row's course.
C18_ProgressNeedsEnrollment ==
  \A r \in progress :
    Role(r.student) = "student" => <<r.course, r.student>> \in enrollments

\* A student without any Enrollment posted lesson_progress_update and has a
\* Progress row.
C18_Witness ==
  /\ last.op = "progress_update"
  /\ last.line = 485
  /\ \A c \in Courses : <<c, last.user>> \notin enrollments
  /\ \E r \in progress : r.student = last.user /\ r.lesson = last.att

\* C19: lesson_progress_update with body {is_completed: b} leaves the Progress
\* row of (student, lesson) with is_completed = b and answers success = true,
\* is_completed = b and the course progress computed after the update.
C19_ProgressUpdate ==
  [][last'.op = "progress_update" =>
       /\ last'.line = 485
       /\ \E r \in progress' :
            r.student = last'.user /\ r.lesson = last'.att /\ r.is_completed = last'.form.body
       /\ \A r \in progress' :
            (r.student = last'.user /\ r.lesson = last'.att) => r.is_completed = last'.form.body
       /\ last'.form.success
       /\ last'.form.is_completed = last'.form.body
       /\ last'.form.course_progress
            = CalculateCourseProgress(progress', last'.user, last'.form.course)]_vars

\* The student has a completed row for the lesson under one course and posted
\* is_completed = false under the other: IntegrityError, the row unchanged.
C19_Witness ==
  /\ last.op = "progress_update"
  /\ last.line = 500
  /\ ~last.form.body
  /\ \E r \in progress :
       /\ r.student = last.user
       /\ r.lesson = last.att
       /\ r.course # last.form.course
       /\ r.is_completed

\* The scores of the submitted attempts, summed.
SubmittedScoreSum == SumOver({i \in 1..Len(attempts) : attempts[i].is_submitted},
                             [i \in 1..Len(attempts) |-> attempts[i].score])
SubmittedCount == Cardinality({i \in 1..Len(attempts) : attempts[i].is_submitted})
AnswerCount(q) == Cardinality({k \in 1..Len(answers) : answers[k].question = q})
CorrectCount(q) ==
  Cardinality({k \in 1..Len(answers) : answers[k].question = q /\ answers[k].is_correct})

\* C20 (as stated): avg_score is the mean score of the submitted attempts (0
\* without any) and each question's correct_rate is 100 * correct answers /
\* answers (0 without any).
C20_ExactStats ==
  last.op = "stats" =>
    /\ last.form.avg_score * SubmittedCount = SubmittedScoreSum
    /\ \A q \in QuestionIds :
         last.form.correct_rate[q] * AnswerCount(q) = 10000 * CorrectCount(q)

\* C20 (amended): avg_score is that mean rounded to 2 decimals and correct_rate
\* that rate rounded to 2 decimals; 3 correct answers of 4 give 75.0.
C20_RoundedStats ==
  last.op = "stats" =>
    LET avg == last.form.avg_score
        d == avg * SubmittedCount - SubmittedScoreSum
    IN /\ avg % 10 = 0
       /\ SubmittedCount = 0 => avg = 0
       /\ 2 * d <= 10 * SubmittedCount /\ -2 * d <= 10 * SubmittedCount
       /\ \A q \in QuestionIds :
            LET rate == last.form.correct_rate[q]
                e == rate * AnswerCount(q) - 10000 * CorrectCount(q)
            IN /\ AnswerCount(q) = 0 => rate = 0
               /\ 2 * e <= AnswerCount(q) /\ -2 * e <= AnswerCount(q)
               /\ (AnswerCount(q) = 4 /\ CorrectCount(q) = 3) => rate = 7500

\* Four students answered question 1, three of them right: 75.0.
C20_Witness ==
  /\ last.op = "stats"
  /\ AnswerCount(1) = 4
  /\ CorrectCount(1) = 3
  /\ last.form.correct_rate[1] = 7500
  /\ SubmittedCount = 4

\* C21: the percent_correct that assessment_result shows is 100 * (correct
\* Answers of the attempt to objective questions) / (objective questions), 0
\* without objective question, within 0..100, and grade_attempt leaves it as
\* it was whatever score it stores.
C21_PercentCorrect ==
  [][ /\ (last'.op = "result" /\ last'.line = 417) =>
          LET pc == last'.form.percent_correct
              t == last'.att
              nobj == Cardinality({q \in QuestionIds : IsObjective(q)})
              ncorrect == Cardinality({k \in 1..Len(answers) :
                             /\ answers[k].attempt = t
                             /\ IsObjective(answers[k].question)
                             /\ answers[k].is_correct})
          IN /\ pc.den > 0
             /\ pc.num * nobj = 100 * ncorrect * pc.den
             /\ nobj = 0 => pc.num = 0
             /\ 0 <= pc.num /\ pc.num <= 100 * pc.den
      /\ last'.op = "grade" =>
          \A t \in 1..Len(attempts) : PercentCorrect(t)' = PercentCorrect(t) ]_vars

\* A result of 100 percent shown for an attempt that grading moved to 8.50.
C21_Witness ==
  /\ last.op = "result"
  /\ last.line = 417
  /\ attempts[last.att].score = 8500
  /\ last.form.percent_correct = [num |-> 100, den |-> 1]

\* The courses of the current school that hold a category.
HomeCoursesOf(cat) ==
  {c \in AllCourses : courses[c].school = "home" /\ courses[c].category = cat}

\* C22: a category_delete POST deletes the Category when no Course of the
\* current school references it; when one does, the Category and every Course
\* stay as they are and the message reports the number of linked courses.
C22_CategoryDelete ==
  [][ (last'.op = "category_delete" /\ last'.line = 1228) =>
        LET cat == last'.att
            n == Cardinality(HomeCoursesOf(cat))
        IN /\ (cat \in categories /\ n = 0) => cat \notin categories'
           /\ n > 0 => /\ categories' = categories
                       /\ courses' = courses
                       /\ last'.form.message = "warning"
                       /\ last'.form.courses_count = n ]_vars

\* Category 3, linked to no course, was deleted, and a POST for category 1
\* was turned down with its 2 linked courses.
C22_Witness ==
  /\ 3 \notin categories
  /\ 1 \in categories
  /\ last.op = "category_delete"
  /\ last.att = 1
  /\ last.line = 1228
  /\ last.form.courses_count = 2

\* C25: admin_required runs the wrapped view for a requester whose role is
\* admin or who owns the school, and redirects every other requester to the
\* school dashboard without running the view.
C25_AdminRequired ==
  [][ last'.op = "manage_users" =>
        IF Role(last'.user) = "admin" \/ last'.user = Owner
          THEN last'.line = 411
        ELSE Response(last'.line) = "redirect:school_dashboard" ]_vars

\* The owner, whose role edit_user had changed to teacher, was redirected.
C25_Witness ==
  /\ last.op = "manage_users"
  /\ last.user = Owner
  /\ Role(Owner) = "teacher"
  /\ Response(last.line) = "redirect:school_dashboard"

\* C29: a category_delete request by an admin of the school changes no data
\* of another school: a Category that a Course of another school references
\* stays, and so does that Course's category.
C29_OtherSchoolUntouched ==
  [][ last'.op = "category_delete" =>
        \A c \in AllCourses :
          courses[c].school # "home" =>
            /\ courses'[c] = courses[c]
            /\ courses[c].category \in categories => courses[c].category \in categories' ]_vars

\* Category 2 is gone and course X of the other school has lost it.
C29_Witness ==
  /\ last.op = "category_delete"
  /\ last.att = 2
  /\ 2 \notin categories
  /\ courses["X"].school = "other"
  /\ courses["X"].category = NULL

\* A posted form that holds text that is no number in a numeric field.
HasNonNumeric(op, form) ==
  \/ op = "grade" /\ \E q \in DOMAIN form : form[q] # "" /\ ~IsFloat(form[q])
  \/ op = "edit" /\ ~FormIsNumeric(form)

\* C23: text that is no number in a numeric form field (attempts_allowed or
\* time_limit of assessment_edit, a grade_{answer_id} of grade_attempt) never
\* leaves the handler as an unhandled exception.
C23_NumericInputHandled ==
  (last.op \in {"grade", "edit"} /\ last.form # NoForm /\ HasNonNumeric(last.op, last.form))
    => Response(last.line) # "server_error"

\* grade_attempt was posted the grade "x" for an essay answer and failed.
C23_Witness ==
  /\ last.op = "grade"
  /\ last.form # NoForm
  /\ \E q \in DOMAIN last.form : last.form[q] = "x"
  /\ Response(last.line) = "server_error"
  /\ \E k \in 1..Len(answers) : answers[k].attempt = last.att /\ ~IsObjective(answers[k].question)

\* C26: with assessment_start requests served one at a time, the Attempts of
\* a student carry the attempt_number values 1..n without duplicates and in
\* creation order: the k-th Attempt a student created has attempt_number k.
C26_AttemptNumbers ==
  \A i \in 1..Len(attempts) :
    attempts[i].attempt_number =
      Cardinality({j \in 1..i : attempts[j].student = attempts[i].student})

\* Two students hold two attempts each, started in turns.
C26_Witness ==
  /\ Len(attempts) = 4
  /\ attempts[1].student # attempts[2].student
  /\ attempts[4].attempt_number = 2
  /\ attempts[3].attempt_number = 2
  /\ last.op = "start"

\* C27: every Attempt with is_submitted=True has a score, whether a POST of
\* assessment_take, the time limit or grade_attempt submitted it.
C27_SubmittedHasScore ==
  \A i \in 1..Len(attempts) : attempts[i].is_submitted => attempts[i].score # NULL

\* An attempt that ran out of time was finalized with the score 0.
C27_Witness ==
  /\ last.op = "take"
  /\ last.line = 174
  /\ attempts[last.att].is_submitted
  /\ attempts[last.att].score = 0
  /\ attempts[last.att].finished_at = now

\* C28: every Progress row with is_completed=True has progress_percentage
\* 100, whichever of lesson_view and lesson_progress_update wrote it, and a
\* row that lesson_progress_update sets back to is_completed=False does not
\* keep progress_percentage 100.
C28_CompletedIsFull ==
  [][ \A r \in progress' :
        /\ r.is_completed => r.progress_percentage = 100
        /\ (\E old \in progress :
              /\ old.student = r.student /\ old.lesson = r.lesson
              /\ old.is_completed /\ ~r.is_completed)
             => r.progress_percentage # 100 ]_vars

\* lesson_progress_update created a completed row that stands at 0 percent.
C28_Witness ==
  /\ last.op = "progress_update"
  /\ last.line = 485
  /\ last.form.is_completed
  /\ \E r \in progress :
       /\ r.student = last.user /\ r.lesson = last.att /\ r.course = last.form.course
       /\ r.is_completed
       /\ r.progress_percentage = 0

\* lesson_progress_update set a row of 100 percent back to not completed.
C28_WitnessReset ==
  /\ last.op = "progress_update"
  /\ last.line = 485
  /\ \E r \in progress :
       /\ r.student = last.user /\ r.lesson = last.att
       /\ ~r.is_completed
       /\ r.progress_percentage = 100

\* C24: every Enrollment row, one created by enroll_in_course included, has
\* the status active or completed.
C24_EnrollmentStatus ==
  \A e \in DOMAIN enrollmentStatus : enrollmentStatus[e] \in {"active", "completed"}

\* enroll_in_course created an Enrollment with the status in_progress.
C24_Witness ==
  /\ last.op = "enroll"
  /\ last.line = 1052
  /\ <<last.form.course, last.user>> \in enrollments
  /\ enrollmentStatus[<<last.form.course, last.user>>] = "in_progress"

\* C30: a course with max_students set never has more Enrollments than
\* max_students, also when enroll_in_course requests of different users
\* interleave.
C30_WithinMaxStudents ==
  \A c \in AllCourses :
    (courses[c].max_students # NULL) =>
      Cardinality({e \in enrollments : e[1] = c}) <= courses[c].max_students

\* Course A, with max_students 2, has 3 Enrollments: the last request had
\* counted 1 before another request enrolled its user.
C30_Witness ==
  /\ last.op = "enroll"
  /\ last.line = 1052
  /\ last.form.course = "A"
  /\ last.form.count = 1
  /\ courses["A"].max_students = 2
  /\ Cardinality({e \in enrollments : e[1] = "A"}) = 3

\* A request that counts a full course creates no Enrollment.
C30_FullCourseRefuses ==
  [][ \A w \in Workers :
        (Responds(w, "enroll") /\ courses[req[w].course].max_students # NULL
           /\ req[w].cnt >= courses[req[w].course].max_students)
        => enrollments' = enrollments ]_vars

====
